---- MODULE Spec2Model ----
(***************************************************************************)
(* Str8ts (CodingTil/russtr8ts): the grid, the compartment finder, the     *)
(* 0/1 model that Str8ts::solve hands to the MIP solver, the extraction of *)
(* the solved grid, the editor's handlers of its five messages and the     *)
(* CellValue iterator.  Spec is the editor handling its messages, the      *)
(* four that edit the grid and SolveRequested, in any order; SolveSpec is  *)
(* the editor sent SolveRequested alone, on each grid of Inputs; IterSpec  *)
(* the CellValueIterators.                                                 *)
(*                                                                         *)
(* The program works on a 9 x 9 grid with the digits 1..9.  The model      *)
(* keeps both numbers as parameters: N is the side of the grid (the 9 of   *)
(* `0..9`, `index / 9`, `row * 9 + col`) and D the largest digit (the 9 of *)
(* `9 - value + 1` and of CellValue::Nine).  A cell value is the number    *)
(* that `From<CellValue> for usize` gives it: 0 is CellValue::Empty.       *)
(***************************************************************************)
EXTENDS Integers, Sequences, FiniteSets, TLC

N == 3
D == 3
MaxEdits == 1
MaxEditCells == 3
MaxEmpty == 9
MaxSolves == 2
MaxIters == 2
MaxCalls == 6

VARIABLES str8ts, status, input, solved, message, iters, handled, alive

vars == <<str8ts, status, input, solved, message, iters, handled, alive>>

Cells == 0 .. (N * N - 1)
Digits == 1 .. D
Empty == 0

(* ---------------------------------------------------------------------- *)
(* macros.rs                                                               *)
(* ---------------------------------------------------------------------- *)
trans_index_to_row_col(index) == << index \div N, index % N >>

trans_row_col_to_index(row, col) == row * N + col

(* ---------------------------------------------------------------------- *)
(* str8ts.rs: Cell, Str8ts and its accessors                               *)
(* ---------------------------------------------------------------------- *)
Cell(color, value) == [color |-> color, value |-> value]

Str8tsNew == [i \in Cells |-> Cell("White", Empty)]

get_cell(g, row, col) == g[trans_row_col_to_index(row, col)]

set_cell_by_index(g, index, cell) == [g EXCEPT ![index] = cell]

set_cell_color(g, row, col, color) ==
    [g EXCEPT ![trans_row_col_to_index(row, col)].color = color]

set_cell_value(g, row, col, value) ==
    [g EXCEPT ![trans_row_col_to_index(row, col)].value = value]

toggle_cell_color(g, row, col) ==
    IF get_cell(g, row, col).color = "White"
    THEN set_cell_color(g, row, col, "Black")
    ELSE set_cell_color(g, row, col, "White")

RECURSIVE CopyFrom(_, _, _)
CopyFrom(g, other, k) ==
    IF k = N * N THEN g
    ELSE LET rc == trans_index_to_row_col(k)
             oc == get_cell(other, rc[1], rc[2])
         IN CopyFrom(set_cell_value(set_cell_color(g, rc[1], rc[2], oc.color),
                                    rc[1], rc[2], oc.value),
                     other, k + 1)

\* Mutant: copy_from forgets set_cell_value, only the colours are copied.
RECURSIVE CopyFromColours(_, _, _)
CopyFromColours(g, other, k) ==
    IF k = N * N THEN g
    ELSE LET rc == trans_index_to_row_col(k)
             oc == get_cell(other, rc[1], rc[2])
         IN CopyFromColours(set_cell_color(g, rc[1], rc[2], oc.color), other, k + 1)

copy_from_colours_only(g, other) == CopyFromColours(g, other, 0)

copy_from(g, other) == CopyFrom(g, other, 0)

(* ---------------------------------------------------------------------- *)
(* str8ts_solver.rs: find_compartments                                     *)
(* ---------------------------------------------------------------------- *)
\* One step of the scan of a line: `transposed` is FALSE for the scan of
\* row `outer` along its columns, TRUE for the scan of column `outer` along
\* its rows.  `compartment` is the running compartment, `compartments` the
\* list emitted so far.
RECURSIVE ScanLines(_, _, _, _, _, _)
ScanLines(g, transposed, outer, inner, compartment, compartments) ==
    IF outer = N THEN compartments
    ELSE IF inner = N
    THEN ScanLines(g, transposed, outer + 1, 0, << >>,
                   IF compartment # << >>
                   THEN Append(compartments, compartment)
                   ELSE compartments)
    ELSE LET row == IF transposed THEN inner ELSE outer
             col == IF transposed THEN outer ELSE inner
         IN IF get_cell(g, row, col).color = "Black"
            THEN ScanLines(g, transposed, outer, inner + 1, << >>,
                           IF compartment # << >>
                           THEN Append(compartments, compartment)
                           ELSE compartments)
            ELSE ScanLines(g, transposed, outer, inner + 1,
                           Append(compartment, trans_row_col_to_index(row, col)),
                           compartments)

\* ScanLines with two slips switched on: `forget_last` drops the compartment
\* still running at the end of a line, `no_split` lets a Black cell pass
\* without closing the running compartment.
RECURSIVE ScanLinesSlip(_, _, _, _, _, _, _, _)
ScanLinesSlip(g, transposed, outer, inner, compartment, compartments, forget_last, no_split) ==
    IF outer = N THEN compartments
    ELSE IF inner = N
    THEN ScanLinesSlip(g, transposed, outer + 1, 0, << >>,
                       IF compartment # << >> /\ ~forget_last
                       THEN Append(compartments, compartment)
                       ELSE compartments, forget_last, no_split)
    ELSE LET row == IF transposed THEN inner ELSE outer
             col == IF transposed THEN outer ELSE inner
         IN IF get_cell(g, row, col).color = "Black"
            THEN IF no_split
                 THEN ScanLinesSlip(g, transposed, outer, inner + 1, compartment,
                                    compartments, forget_last, no_split)
                 ELSE ScanLinesSlip(g, transposed, outer, inner + 1, << >>,
                                    IF compartment # << >>
                                    THEN Append(compartments, compartment)
                                    ELSE compartments, forget_last, no_split)
            ELSE ScanLinesSlip(g, transposed, outer, inner + 1,
                               Append(compartment, trans_row_col_to_index(row, col)),
                               compartments, forget_last, no_split)

\* Mutant: the compartment that reaches the end of its row is never pushed.
find_compartments_rows_forgets_last(g) ==
    ScanLinesSlip(g, FALSE, 0, 0, << >>, << >>, TRUE, FALSE)

\* Mutant: a Black cell does not end the running column-compartment.
find_compartments_cols_no_split(g) ==
    ScanLinesSlip(g, TRUE, 0, 0, << >>, << >>, FALSE, TRUE)

find_compartments_rows(g) == ScanLines(g, FALSE, 0, 0, << >>, << >>)

find_compartments_cols(g) == ScanLines(g, TRUE, 0, 0, << >>, << >>)

find_compartments(g) == find_compartments_rows(g) \o find_compartments_cols(g)

(* ---------------------------------------------------------------------- *)
(* str8ts_solver.rs: the model built by Str8ts::solve                      *)
(*                                                                         *)
(* A variable is [key, lb, ub]; its key is <<"x", index, value>> or        *)
(* <<"y", compartment_index, value>>, the keys of the two HashMaps.  A     *)
(* constraint is [vars, coeffs, lo, hi], the arguments of add_cons.        *)
(* ---------------------------------------------------------------------- *)
\* Stands for f64::INFINITY: larger than the number of variables of any
\* model, so no sum of 0/1 values with coefficients 1 and -1 reaches it.
Infinity == 3 * N * N * D + 1

Var(key, lb, ub) == [key |-> key, lb |-> lb, ub |-> ub]

Cons(keys, coeffs, lo, hi) == [vars |-> keys, coeffs |-> coeffs, lo |-> lo, hi |-> hi]

Ones(n) == [j \in 1 .. n |-> 1]

RECURSIVE Concat(_)
Concat(ss) == IF ss = << >> THEN << >> ELSE Head(ss) \o Concat(Tail(ss))

\* The indices with their cells, `self.into_iter().enumerate()`.
Indices == [j \in 1 .. (N * N) |-> j - 1]

IsWhite(g, index) == g[index].color = "White"

WhiteIndices(g) == SelectSeq(Indices, LAMBDA i : IsWhite(g, i))

\* Mutant: the clue of a White cell is not baked into the bounds.
XVarIgnoresClue(g, index, value) == Var(<<"x", index, value>>, 0, 1)

\* x_{i}_{k}: free for an Empty cell, forced on for the cell's clue, forced
\* off for every other digit of a cell that holds a clue.
XVar(g, index, value) ==
    IF g[index].value = Empty THEN Var(<<"x", index, value>>, 0, 1)
    ELSE IF g[index].value = value THEN Var(<<"x", index, value>>, 1, 1)
    ELSE Var(<<"x", index, value>>, 0, 0)

XVars(g) ==
    LET w == WhiteIndices(g)
    IN Concat([j \in 1 .. Len(w) |-> [value \in 1 .. D |-> XVar(g, w[j], value)]])

\* Mutant: `<` for `<=`, the highest straight that fits is forced off.
YVarStrict(compartments, c, value) ==
    IF Len(compartments[c + 1]) < D - value + 1
    THEN Var(<<"y", c, value>>, 0, 1)
    ELSE Var(<<"y", c, value>>, 0, 0)

\* y_{c}_{k}: free when a straight of the compartment's length starting at
\* k fits below D, forced off otherwise.
YVar(compartments, c, value) ==
    IF Len(compartments[c + 1]) <= D - value + 1
    THEN Var(<<"y", c, value>>, 0, 1)
    ELSE Var(<<"y", c, value>>, 0, 0)

YVars(compartments) ==
    Concat([j \in 1 .. Len(compartments) |->
               [value \in 1 .. D |-> YVar(compartments, j - 1, value)]])

\* 1. Each cell contains exactly one value.
Cons1(g) ==
    LET w == WhiteIndices(g)
    IN [j \in 1 .. Len(w) |->
           Cons([value \in 1 .. D |-> <<"x", w[j], value>>], Ones(D), 1, 1)]

\* The x keys of one digit over the White cells of a row / of a column.
XRow(g, row, value) ==
    LET w == SelectSeq(Indices, LAMBDA i : IsWhite(g, i) /\ i \div N = row)
    IN [j \in 1 .. Len(w) |-> <<"x", w[j], value>>]

XCol(g, col, value) ==
    LET w == SelectSeq(Indices, LAMBDA i : IsWhite(g, i) /\ i % N = col)
    IN [j \in 1 .. Len(w) |-> <<"x", w[j], value>>]

\* Mutant: the filter forgets `key.1 == value`, one constraint per row and
\* digit over all the x variables of the row.
Cons2aAnyValue(g) ==
    Concat([r \in 1 .. N |->
               [value \in 1 .. D |->
                   LET x_i == Concat([v \in 1 .. D |-> XRow(g, r - 1, v)])
                   IN Cons(x_i, Ones(Len(x_i)), -Infinity, 1)]])

\* 2.a No two white cells in the same row have the same value.
Cons2a(g) ==
    Concat([r \in 1 .. N |->
               [value \in 1 .. D |->
                   LET x_i == XRow(g, r - 1, value)
                   IN Cons(x_i, Ones(Len(x_i)), -Infinity, 1)]])

\* The non-empty values of the black cells of a row / of a column.
IsBlackClue(cell) == cell.color = "Black" /\ cell.value # Empty

BlackValuesRow(g, row) ==
    LET b == SelectSeq([j \in 1 .. N |-> j - 1],
                       LAMBDA col : IsBlackClue(get_cell(g, row, col)))
    IN [j \in 1 .. Len(b) |-> get_cell(g, row, b[j]).value]

BlackValuesCol(g, col) ==
    LET b == SelectSeq([j \in 1 .. N |-> j - 1],
                       LAMBDA row : IsBlackClue(get_cell(g, row, col)))
    IN [j \in 1 .. Len(b) |-> get_cell(g, b[j], col).value]

\* assert!(black_values.len() == black_values.iter().collect::<HashSet>().len())
NoDuplicates(black_values) ==
    Len(black_values) = Cardinality({black_values[j] : j \in 1 .. Len(black_values)})

RowAssert(g, row) == NoDuplicates(BlackValuesRow(g, row))

ColAssert(g, col) == NoDuplicates(BlackValuesCol(g, col))

\* Mutant: the upper bound of constraint 2.b is 1, as in 2.a, not 0.
Cons2bLoose(g) ==
    Concat([r \in 1 .. N |->
               LET black_values == BlackValuesRow(g, r - 1)
               IN Concat([b \in 1 .. Len(black_values) |->
                             LET x_i == XRow(g, r - 1, black_values[b])
                             IN [j \in 1 .. Len(x_i) |->
                                    Cons(<<x_i[j]>>, <<1>>, -Infinity, 1)]])])

\* 2.b No white cell has the same value as a black cell in the same row.
Cons2b(g) ==
    Concat([r \in 1 .. N |->
               LET black_values == BlackValuesRow(g, r - 1)
               IN Concat([b \in 1 .. Len(black_values) |->
                             LET x_i == XRow(g, r - 1, black_values[b])
                             IN [j \in 1 .. Len(x_i) |->
                                    Cons(<<x_i[j]>>, <<1>>, -Infinity, 0)]])])

\* 3.a No two white cells in the same column have the same value.
Cons3a(g) ==
    Concat([c \in 1 .. N |->
               [value \in 1 .. D |->
                   LET x_i == XCol(g, c - 1, value)
                   IN Cons(x_i, Ones(Len(x_i)), -Infinity, 1)]])

\* 3.b No white cell has the same value as a black cell in the same column.
Cons3b(g) ==
    Concat([c \in 1 .. N |->
               LET black_values == BlackValuesCol(g, c - 1)
               IN Concat([b \in 1 .. Len(black_values) |->
                             LET x_i == XCol(g, c - 1, black_values[b])
                             IN [j \in 1 .. Len(x_i) |->
                                    Cons(<<x_i[j]>>, <<1>>, -Infinity, 0)]])])

\* 4. Each compartment has exactly one least value.
Cons4(compartments) ==
    [j \in 1 .. Len(compartments) |->
        Cons([value \in 1 .. D |-> <<"y", j - 1, value>>], Ones(D), 1, 1)]

\* The least values the loop of constraint 5 handles before its `break`.
LeastValues(compartment) ==
    SelectSeq([v \in 1 .. D |-> v],
              LAMBDA value : \A v \in 1 .. value : ~(Len(compartment) > D - v + 1))

\* Mutant: `count` starts one short, the last digit of the straight is
\* never asked for.
NextValuesShort(compartment, value) ==
    SelectSeq([v \in 1 .. D |-> v],
              LAMBDA next_value : next_value >= value
                                  /\ next_value - value < Len(compartment) - 1)

\* Mutant: `next_value <= value` for `next_value < value`, the inner loop
\* skips the least value itself.
NextValuesSkipsFirst(compartment, value) ==
    SelectSeq([v \in 1 .. D |-> v],
              LAMBDA next_value : next_value > value
                                  /\ next_value - value <= Len(compartment))

\* The next_value of the inner loop: it skips the values below `value` and
\* stops after compartment.len() of them.
NextValues(compartment, value) ==
    SelectSeq([v \in 1 .. D |-> v],
              LAMBDA next_value : next_value >= value
                                  /\ next_value - value < Len(compartment))

\* 5. Each compartment has adjacent values.
Cons5One(compartment, c, value, next_value) ==
    Cons([j \in 1 .. (Len(compartment) + 1) |->
             IF j <= Len(compartment)
             THEN <<"x", compartment[j], next_value>>
             ELSE <<"y", c, value>>],
         [j \in 1 .. (Len(compartment) + 1) |->
             IF j <= Len(compartment) THEN 1 ELSE -1],
         0, Infinity)

Cons5(compartments) ==
    Concat([j \in 1 .. Len(compartments) |->
               LET values == LeastValues(compartments[j])
               IN Concat([a \in 1 .. Len(values) |->
                             LET nexts == NextValues(compartments[j], values[a])
                             IN [b \in 1 .. Len(nexts) |->
                                    Cons5One(compartments[j], j - 1,
                                             values[a], nexts[b])]])])

\* The model at `model.solve()`: all variables, then all constraints, in the
\* order in which solve creates them.
BuildModel(g) ==
    LET compartments == find_compartments(g)
    IN [vars |-> XVars(g) \o YVars(compartments),
        cons |-> Cons1(g) \o Cons2a(g) \o Cons2b(g) \o Cons3a(g) \o Cons3b(g)
                 \o Cons4(compartments) \o Cons5(compartments)]

\* Mutant: the assert on the columns is missing.
AssertsHoldRowsOnly(g) == \A row \in 0 .. (N - 1) : RowAssert(g, row)

\* The two asserts that solve passes while it builds the model.
AssertsHold(g) ==
    /\ \A row \in 0 .. (N - 1) : RowAssert(g, row)
    /\ \A col \in 0 .. (N - 1) : ColAssert(g, col)

(* ---------------------------------------------------------------------- *)
(* russcip: model.solve(), status(), best_sol()                            *)
(*                                                                         *)
(* The solver is an external library, modelled by its contract: the status *)
(* is Optimal exactly when some 0/1 assignment within the variables'       *)
(* bounds satisfies every constraint (the objective is constant), and      *)
(* best_sol is one of these assignments, any of them.  Solutions computes  *)
(* the set of all of them by assigning the variables in order; a partial     *)
(* assignment is dropped as soon as some constraint cannot be met any more *)
(* whatever the remaining variables take within their bounds.              *)
(* ---------------------------------------------------------------------- *)
\* The model with its constraints' variables replaced by their positions;
\* touching[q] holds the constraints over some variable of the q-th block
\* of D variables (the D variables of one cell or of one compartment).
Prepared(model) ==
    LET n == Len(model.vars)
        keys == {model.vars[j].key : j \in 1 .. n}
        pos == [k \in keys |-> CHOOSE j \in 1 .. n : model.vars[j].key = k]
        m == Len(model.cons)
        at == [c \in 1 .. m |->
                  [t \in 1 .. Len(model.cons[c].vars) |-> pos[model.cons[c].vars[t]]]]
        blocks == [c \in 1 .. m |-> {(at[c][t] - 1) \div D : t \in 1 .. Len(at[c])}]
    IN [vars |-> model.vars, cons |-> model.cons, pos |-> pos, at |-> at,
        touching |-> [q \in 0 .. ((n - 1) \div D) |-> {c \in 1 .. m : q \in blocks[c]}]]

\* The least (lowest = TRUE) or greatest activity constraint c can still
\* reach from term t on, once the variables 1..Len(a) have the values a.
RECURSIVE Activity(_, _, _, _, _)
Activity(P, c, a, lowest, t) ==
    IF t > Len(P.at[c]) THEN 0
    ELSE LET j == P.at[c][t]
             co == P.cons[c].coeffs[t]
         IN (IF j <= Len(a) THEN co * a[j]
             ELSE IF (co > 0) = lowest THEN co * P.vars[j].lb
             ELSE co * P.vars[j].ub)
            + Activity(P, c, a, lowest, t + 1)

Satisfiable(P, c, a) ==
    /\ Activity(P, c, a, TRUE, 1) <= P.cons[c].hi
    /\ Activity(P, c, a, FALSE, 1) >= P.cons[c].lo

\* The values the variables j+1 .. j+k can take within their bounds.
Block(P, j, k) ==
    {s \in [1 .. k -> {0, 1}] :
        \A t \in 1 .. k : P.vars[j + t].lb <= s[t] /\ s[t] <= P.vars[j + t].ub}

\* The variables are assigned one block at a time.
RECURSIVE Search(_, _)
Search(P, a) ==
    IF Len(a) = Len(P.vars) THEN {a}
    ELSE LET j == Len(a)
             k == IF Len(P.vars) - j < D THEN Len(P.vars) - j ELSE D
         IN UNION {
              LET b == a \o s
              IN IF \A c \in P.touching[j \div D] : Satisfiable(P, c, b)
                 THEN Search(P, b)
                 ELSE {} : s \in Block(P, j, k) }

\* The feasible assignments, each as a function from the variables' keys.
Solutions(model) ==
    LET P == Prepared(model)
    IN IF \A c \in 1 .. Len(P.cons) : Satisfiable(P, c, << >>)
       THEN {[key \in DOMAIN P.pos |-> a[P.pos[key]]] : a \in Search(P, << >>)}
       ELSE {}

\* solution.val(var) of the variable with this key.
SolutionVal(solution, key) == solution[key]

(* ---------------------------------------------------------------------- *)
(* str8ts_solver.rs: the solved grid                                       *)
(* ---------------------------------------------------------------------- *)
\* The loop over the digits of one White cell: every digit whose variable
\* is at least 0.5 overwrites the cell, so the last one stays.
RECURSIVE ExtractCell(_, _, _, _)
ExtractCell(solution, index, value, cell) ==
    IF value > D THEN cell
    ELSE ExtractCell(solution, index, value + 1,
                     IF 2 * SolutionVal(solution, <<"x", index, value>>) >= 1
                     THEN Cell("White", value)
                     ELSE cell)

\* Mutant: a Black cell passes on its colour, not its value.
ExtractColourOnly(g, solution) ==
    [index \in Cells |->
        IF g[index].color = "White"
        THEN ExtractCell(solution, index, 1, Str8tsNew[index])
        ELSE Cell("Black", Empty)]

\* Mutant: the `else` branch is missing, a Black cell stays as
\* Str8ts::new() made it.
ExtractWhiteOnly(g, solution) ==
    [index \in Cells |->
        IF g[index].color = "White"
        THEN ExtractCell(solution, index, 1, Str8tsNew[index])
        ELSE Str8tsNew[index]]

\* solved_str8ts starts as Str8ts::new(); Black cells are copied.
Extract(g, solution) ==
    [index \in Cells |->
        IF g[index].color = "White"
        THEN ExtractCell(solution, index, 1, Str8tsNew[index])
        ELSE g[index]]

\* assert!(cell.value != CellValue::Empty) for each White cell.
ValueAssert(s) == \A index \in Cells : s[index].color = "White" => s[index].value # Empty

\* The grids solve can return for g: one per assignment the solver can report.
SolveResults(g) ==
    {Extract(g, solution) : solution \in Solutions(BuildModel(g))}

(* ---------------------------------------------------------------------- *)
(* str8ts.rs: clear_all, clear_values                                      *)
(* ---------------------------------------------------------------------- *)
RECURSIVE ClearAllFrom(_, _)
ClearAllFrom(g, k) ==
    IF k = N * N THEN g
    ELSE LET rc == trans_index_to_row_col(k)
         IN ClearAllFrom(set_cell_value(set_cell_color(g, rc[1], rc[2], "White"),
                                        rc[1], rc[2], Empty),
                         k + 1)

clear_all(g) == ClearAllFrom(g, 0)

RECURSIVE ClearValuesFrom(_, _)
ClearValuesFrom(g, k) ==
    IF k = N * N THEN g
    ELSE LET rc == trans_index_to_row_col(k)
         IN ClearValuesFrom(set_cell_value(g, rc[1], rc[2], Empty), k + 1)

\* Mutant: the clue of a Black cell is kept.
RECURSIVE ClearValuesWhite(_, _)
ClearValuesWhite(g, k) ==
    IF k = N * N THEN g
    ELSE LET rc == trans_index_to_row_col(k)
         IN ClearValuesWhite(IF get_cell(g, rc[1], rc[2]).color = "Black" THEN g
                             ELSE set_cell_value(g, rc[1], rc[2], Empty),
                             k + 1)

clear_values_keeps_black(g) == ClearValuesWhite(g, 0)

clear_values(g) == ClearValuesFrom(g, 0)

(* ---------------------------------------------------------------------- *)
(* str8ts_gui.rs: the text of a CellInputChanged message                   *)
(*                                                                         *)
(* A String is the sequence of its chars and a char is the number of its   *)
(* Unicode scalar value: 32 is ' ', 9 '\t', 10 '\n', 43 '+', 45 '-', 48    *)
(* to 57 are '0' to '9', 97 is 'a', 160 is U+00A0.  `value.trim()` drops   *)
(* the chars of the Unicode property White_Space at both ends;             *)
(* `parse::<u8>()` accepts an optional `+` and then one or more decimal    *)
(* digits whose value fits in 8 bits.  Its Result is the sequence of its   *)
(* content: <<value>> for Ok(value), << >> for Err(_).                     *)
(* ---------------------------------------------------------------------- *)
DigitChars == 48 .. 57

IsDigitChar(ch) == ch \in DigitChars

DigitValue(ch) == ch - 48

\* char::is_whitespace: U+0009..U+000D, U+0020, U+0085, U+00A0, U+1680,
\* U+2000..U+200A, U+2028, U+2029, U+202F, U+205F, U+3000.
IsWhitespace(ch) ==
    ch \in (9 .. 13) \cup {32, 133, 160, 5760} \cup (8192 .. 8202)
               \cup {8232, 8233, 8239, 8287, 12288}

RECURSIVE TrimStart(_)
TrimStart(text) ==
    IF text # << >> /\ IsWhitespace(Head(text)) THEN TrimStart(Tail(text)) ELSE text

RECURSIVE TrimEnd(_)
TrimEnd(text) ==
    IF text # << >> /\ IsWhitespace(text[Len(text)])
    THEN TrimEnd(SubSeq(text, 1, Len(text) - 1))
    ELSE text

Trim(text) == TrimEnd(TrimStart(text))

Ok(value) == <<value>>

Err == << >>

RECURSIVE ParseDigits(_, _)
ParseDigits(digits, result) ==
    IF digits = << >> THEN Ok(result)
    ELSE IF ~IsDigitChar(Head(digits)) THEN Err
    ELSE LET next == result * 10 + DigitValue(Head(digits))
         IN IF next > 255 THEN Err ELSE ParseDigits(Tail(digits), next)

ParseU8(text) ==
    IF text = << >> THEN Err
    ELSE IF Len(text) = 1 /\ text[1] \in {43, 45} THEN Err
    ELSE IF text[1] = 43 THEN ParseDigits(Tail(text), 0)
    ELSE ParseDigits(text, 0)

\* The CellValue of the `match`: the digit, and Empty for every other text.
InputValue(value) ==
    LET parsed == ParseU8(Trim(value))
    IN IF parsed # Err /\ parsed[1] \in Digits THEN parsed[1] ELSE Empty

(* ---------------------------------------------------------------------- *)
(* The grids the editor starts from, the arguments of its messages         *)
(* ---------------------------------------------------------------------- *)
\* A grid that carries the cyclic Latin square, its last `empty` cells left
\* Empty.  Its cells are all White, all Black, Black on the main diagonal
\* and White elsewhere, or White and Black in turn along every row
\* ("Stripes").  Filled("White", N * N) is Str8ts::new(), the editor's grid
\* at start; Filled("White", 0) is a solved grid.
Filled(pattern, empty) ==
    [i \in Cells |->
        Cell(IF pattern = "Diagonal"
             THEN (IF i \div N = i % N THEN "Black" ELSE "White")
             ELSE IF pattern = "Stripes"
             THEN (IF (i % N) % 2 = 0 THEN "White" ELSE "Black")
             ELSE pattern,
             IF i >= N * N - empty THEN Empty
             ELSE (((i \div N) + (i % N)) % D) + 1)]

EmptyCounts == {0, MaxEmpty - 2, MaxEmpty}

\* The all-White grid with each number of empty cells, the other patterns
\* with some clues and some empty cells: Str8ts::new() and grids that
\* earlier messages made of it.
Seeds ==
    {Filled("White", empty) : empty \in EmptyCounts}
        \cup {Filled(pattern, MaxEmpty - 2) : pattern \in {"Black", "Diagonal", "Stripes"}}

\* The cells the messages name: the first MaxEditCells cells counted along
\* the anti-diagonals from the top-left corner (0, 1, N, 2, N + 1, ...).
Before(i, j) ==
    LET di == (i \div N) + (i % N)
        dj == (j \div N) + (j % N)
    IN di < dj \/ (di = dj /\ i < j)

EditCells == {i \in Cells : Cardinality({j \in Cells : Before(j, i)}) < MaxEditCells}

\* What one message (a colour toggle or a value input) makes of g.
Edited(g) ==
    UNION {{toggle_cell_color(g, i \div N, i % N)}
           \cup {set_cell_value(g, i \div N, i % N, v) : v \in 0 .. D} : i \in EditCells}

RECURSIVE Within(_, _)
Within(k, grids) ==
    IF k = 0 THEN grids
    ELSE Within(k - 1, grids \cup UNION {Edited(g) : g \in grids})

\* The grids at most MaxEdits such messages away from a seed.
Inputs == Within(MaxEdits, Seeds)

\* The texts of CellInputChanged: "", " ", "0", "a", "12", "+1", "256",
\* " \t2\n ", "\u{a0}2" and the digits "1", ..., "D".
Texts ==
    {<< >>, <<32>>, <<48>>, <<97>>, <<49, 50>>, <<43, 49>>, <<50, 53, 54>>,
     <<32, 9, 50, 10, 32>>, <<160, 50>>}
        \cup {<<48 + d>> : d \in Digits}

(* ---------------------------------------------------------------------- *)
(* The state machine: Str8tsEditor::update                                 *)
(*                                                                         *)
(* str8ts is the editor's grid.  message is the message the editor handled *)
(* last, <<"New">> before the first, and input the grid it came to.        *)
(* status tells how the call of solve of the last SolveRequested ended:    *)
(* "idle" when solve has not been called, "some" and "none" for what it    *)
(* returned, "abort" when one of its asserts failed, "stdout" when one of  *)
(* its writes to standard output failed; solved is the grid it returned    *)
(* when status = "some".  alive is FALSE once a panic has ended the        *)
(* process.  handled counts the messages handled, the SolveRequested apart *)
(* from the four that edit the grid.  iters holds the CellValueIterators   *)
(* alive, none here.                                                       *)
(* ---------------------------------------------------------------------- *)
Init ==
    /\ str8ts \in Seeds
    /\ status = "idle"
    /\ input = str8ts
    /\ solved = Str8tsNew
    /\ message = <<"New">>
    /\ iters = << >>
    /\ handled = [edits |-> 0, solves |-> 0]
    /\ alive = TRUE

\* An edit is taken while the process lives and the bound allows it.
Edit(kind) ==
    /\ alive
    /\ handled.edits < MaxEdits
    /\ handled' = [handled EXCEPT !.edits = @ + 1]
    /\ input' = str8ts
    /\ message' = kind
    /\ UNCHANGED <<status, solved, iters, alive>>

CellInputChanged(row, col, value) ==
    /\ Edit(<<"CellInputChanged", row, col, value>>)
    /\ str8ts' = set_cell_value(str8ts, row, col, InputValue(value))

CellColorToggled(row, col) ==
    /\ Edit(<<"CellColorToggled", row, col>>)
    /\ str8ts' = toggle_cell_color(str8ts, row, col)

ClearAll ==
    /\ Edit(<<"ClearAll">>)
    /\ str8ts' = clear_all(str8ts)

ClearValues ==
    /\ Edit(<<"ClearValues">>)
    /\ str8ts' = clear_values(str8ts)

\* A panic: the grid stays as it is and the process is gone.
Panic(how) ==
    /\ status' = how
    /\ alive' = FALSE
    /\ UNCHANGED <<str8ts, solved>>

\* assert!(!black_values.iter().any(..)), assert!(cell.value != Empty).
Abort == Panic("abort")

\* println! and print! panic ("failed printing to stdout") when standard
\* output cannot be written to; whether it can is up to the environment,
\* write by write.  The handler writes before it calls solve; solve writes
\* once for each compartment, before it builds the model; the handler
\* writes again when solve has returned, before copy_from.
SolveRequested ==
    /\ alive
    /\ handled.solves < MaxSolves
    /\ handled' = [handled EXCEPT !.solves = @ + 1]
    /\ input' = str8ts
    /\ message' = <<"SolveRequested">>
    /\ UNCHANGED iters
    /\ \/ Panic("idle")                                          \* gui 138, 140
       \/ find_compartments(str8ts) # << >> /\ Panic("stdout")   \* solver 16-21
       \/ IF ~AssertsHold(str8ts) THEN Abort
          ELSE LET results == SolveResults(str8ts)
               IN IF results = {}
                  THEN /\ status' = "none"
                       /\ alive' \in BOOLEAN
                       /\ UNCHANGED <<str8ts, solved>>
                  ELSE \E s \in results :
                         IF ~ValueAssert(s) THEN Abort
                         ELSE /\ status' = "some"
                              /\ solved' = s
                              /\ \/ alive' = TRUE /\ str8ts' = copy_from(str8ts, s)
                                 \/ alive' = FALSE /\ UNCHANGED str8ts

Next ==
    \/ \E i \in EditCells : \E value \in Texts :
          CellInputChanged(i \div N, i % N, value)
    \/ \E i \in EditCells : CellColorToggled(i \div N, i % N)
    \/ SolveRequested
    \/ ClearAll
    \/ ClearValues

Spec == Init /\ [][Next]_vars

\* The editor with one of the grids of Inputs, sent SolveRequested and
\* nothing else: Str8ts::solve applied to each of these grids, and then to
\* the grid it returned.
SolveInit ==
    /\ str8ts \in Inputs
    /\ status = "idle"
    /\ input = str8ts
    /\ solved = Str8tsNew
    /\ message = <<"New">>
    /\ iters = << >>
    /\ handled = [edits |-> 0, solves |-> 0]
    /\ alive = TRUE

SolveSpec == SolveInit /\ [][SolveRequested]_vars

(* ---------------------------------------------------------------------- *)
(* str8ts.rs: CellValue::into_iter and CellValueIterator                   *)
(*                                                                         *)
(* An iterator is [value, is_first], the two fields of the struct.  iters  *)
(* holds the iterators alive, each with the flag it was made with and the  *)
(* items its calls of next returned so far.  An Option<CellValue> is the   *)
(* sequence of its content: <<value>> for Some(value), << >> for None.     *)
(* ---------------------------------------------------------------------- *)
Some(value) == <<value>>

None == << >>

CellValueIntoIter(with_empty) == [value |-> Empty, is_first |-> with_empty]

\* Mutant: the `None` arm starts over, value goes back to Empty.
CellValueIteratorNextWraps(it) ==
    IF it.is_first
    THEN [iter |-> [value |-> Empty, is_first |-> FALSE], item |-> Some(Empty)]
    ELSE IF it.value < D
    THEN [iter |-> [it EXCEPT !.value = it.value + 1], item |-> Some(it.value + 1)]
    ELSE [iter |-> [it EXCEPT !.value = Empty], item |-> None]

\* next: the iterator after the call and the item returned.
CellValueIteratorNext(it) ==
    IF it.is_first
    THEN [iter |-> [value |-> Empty, is_first |-> FALSE], item |-> Some(Empty)]
    ELSE IF it.value < D
    THEN [iter |-> [it EXCEPT !.value = it.value + 1], item |-> Some(it.value + 1)]
    ELSE [iter |-> it, item |-> None]

IterInit ==
    /\ str8ts = Str8tsNew
    /\ status = "idle"
    /\ input = str8ts
    /\ solved = Str8tsNew
    /\ message = <<"New">>
    /\ iters = << >>
    /\ handled = [edits |-> 0, solves |-> 0]
    /\ alive = TRUE

IntoIter(with_empty) ==
    /\ Len(iters) < MaxIters
    /\ iters' = Append(iters, [iter |-> CellValueIntoIter(with_empty),
                               with_empty |-> with_empty,
                               items |-> << >>])
    /\ UNCHANGED <<str8ts, status, input, solved, message, handled, alive>>

IterNext(j) ==
    /\ j <= Len(iters)
    /\ Len(iters[j].items) < MaxCalls
    /\ LET call == CellValueIteratorNext(iters[j].iter)
       IN iters' = [iters EXCEPT ![j].iter = call.iter,
                                 ![j].items = Append(@, call.item)]
    /\ UNCHANGED <<str8ts, status, input, solved, message, handled, alive>>

IterStep ==
    \/ \E with_empty \in BOOLEAN : IntoIter(with_empty)
    \/ \E j \in 1 .. MaxIters : IterNext(j)

IterSpec == IterInit /\ [][IterStep]_vars

(* ---------------------------------------------------------------------- *)
(* The rules of the puzzle, stated on grids without the solver's model     *)
(* ---------------------------------------------------------------------- *)
RowOf(i) == i \div N

ColOf(i) == i % N

SameRow(i, j) == RowOf(i) = RowOf(j)

SameCol(i, j) == ColOf(i) = ColOf(j)

Whites(g) == {i \in Cells : g[i].color = "White"}

Blacks(g) == {i \in Cells : g[i].color = "Black"}

\* The cells from i to j on their common row or column.
Between(i, j) ==
    IF SameRow(i, j)
    THEN {k \in Cells : SameRow(k, i) /\ ((i <= k /\ k <= j) \/ (j <= k /\ k <= i))}
    ELSE {k \in Cells : SameCol(k, i) /\ ((i <= k /\ k <= j) \/ (j <= k /\ k <= i))}

\* The White cells that reach White cell i along its row (its column)
\* without crossing a Black cell.
RowRun(g, i) == {j \in Cells : SameRow(i, j) /\ Between(i, j) \subseteq Whites(g)}

ColRun(g, i) == {j \in Cells : SameCol(i, j) /\ Between(i, j) \subseteq Whites(g)}

\* The digits of a run form {m, ..., m + L - 1} with 1 <= m and m + L - 1 <= D.
IsStraight(s, run) ==
    LET digits == {s[j].value : j \in run}
    IN \E m \in Digits :
          /\ m + Cardinality(run) - 1 <= D
          /\ digits = m .. (m + Cardinality(run) - 1)

\* No two Black cells of one row or of one column carry the same digit.
NoBlackDuplicate(g) ==
    \A i, j \in Blacks(g) :
        (i # j /\ (SameRow(i, j) \/ SameCol(i, j)) /\ g[i].value # Empty)
            => g[i].value # g[j].value

UniqueInLines(s) ==
    \A i, j \in Whites(s) :
        (i # j /\ (SameRow(i, j) \/ SameCol(i, j))) => s[i].value # s[j].value

BlackExcluded(g, s) ==
    \A i \in Whites(g) : \A j \in Blacks(g) :
        ((SameRow(i, j) \/ SameCol(i, j)) /\ g[j].value # Empty)
            => s[i].value # g[j].value

CluesKept(g, s) ==
    /\ \A i \in Cells : s[i].color = g[i].color
    /\ \A i \in Whites(g) : g[i].value # Empty => s[i].value = g[i].value
    /\ \A i \in Blacks(g) : s[i] = g[i]

\* The compartments of g as the rules give them: the runs of its White cells.
Runs(g) == {RowRun(g, i) : i \in Whites(g)} \cup {ColRun(g, i) : i \in Whites(g)}

StraightRuns(runs, s) == \A run \in runs : IsStraight(s, run)

Straights(g, s) == StraightRuns(Runs(g), s)

\* s is a valid completion of g, whose runs are `runs`.
IsCompletionOn(g, runs, s) ==
    /\ CluesKept(g, s)
    /\ \A i \in Whites(g) : s[i].value \in Digits
    /\ UniqueInLines(s)
    /\ BlackExcluded(g, s)
    /\ StraightRuns(runs, s)

\* s is a valid completion of g.
IsCompletion(g, s) == IsCompletionOn(g, Runs(g), s)

\* The digits that neither a cell of g in line with cell k holds already nor
\* a White cell before k holds in s.
Free(g, s, k) ==
    {d \in Digits :
        \A j \in Cells :
            (j # k /\ (SameRow(j, k) \/ SameCol(j, k)))
                => /\ g[j].value # d
                   /\ (j < k /\ g[j].color = "White") => s[j].value # d}

\* The grids that agree with g on its Black cells and clues and hold a
\* digit on every other White cell, a digit that no clue in line with the
\* cell and no White cell filled before it in line holds (cells are filled
\* in index order).  Every valid completion of g is among them.
RECURSIVE Fillings(_, _, _)
Fillings(g, s, k) ==
    IF k = N * N THEN {s}
    ELSE IF g[k].color = "Black" \/ g[k].value # Empty
    THEN Fillings(g, s, k + 1)
    ELSE UNION {Fillings(g, [s EXCEPT ![k].value = v], k + 1) : v \in Free(g, s, k)}

ValidCompletions(g) ==
    LET runs == Runs(g)
    IN {s \in Fillings(g, g, 0) : IsCompletionOn(g, runs, s)}

(* ---------------------------------------------------------------------- *)
(* Claims                                                                  *)
(* ---------------------------------------------------------------------- *)
\* The last message was a SolveRequested and its handler called solve.
Called == message = <<"SolveRequested">> /\ status # "idle"

\* solve was called and each of its writes to standard output went through.
Ran == Called /\ status # "stdout"

\* The call of solve ended this way: "some", "none", "abort" or "stdout".
Ended(how) == Called /\ status = how

DigitsOn(s, compartment) == {s[compartment[t]].value : t \in 1 .. Len(compartment)}

Occurrences(compartments, i) ==
    Cardinality({kt \in {<<k, t>> : k \in 1 .. Len(compartments), t \in 1 .. N} :
                    /\ kt[2] <= Len(compartments[kt[1]])
                    /\ compartments[kt[1]][kt[2]] = i})

\* C1: for a grid without a duplicate Black clue digit in a row or column
\* (each grid the editor starts from or an edit makes), extraction maps the feasible assignments of the model one-to-one onto
\* the valid completions of the grid, and a call of solve on such a grid,
\* its writes to standard output going through, returns Some (a valid
\* completion) exactly when a valid completion exists.
C1_FeasibleIffCompletion ==
    /\ (message # <<"SolveRequested">> /\ NoBlackDuplicate(str8ts)) =>
          LET feasible == Solutions(BuildModel(str8ts))
              valid == ValidCompletions(str8ts)
          IN /\ {Extract(str8ts, solution) : solution \in feasible} = valid
             /\ Cardinality(feasible) = Cardinality(valid)
    /\ (Ran /\ NoBlackDuplicate(input)) =>
          /\ status \in {"some", "none"}
          /\ status = "some" => IsCompletion(input, solved)
          /\ status = "none" => ValidCompletions(input) = {}

\* solve chose one of several completions of a grid with open White cells.
C1_Witness ==
    /\ Ended("some")
    /\ NoBlackDuplicate(input)
    /\ Cardinality(ValidCompletions(input)) > 1
    /\ Blacks(input) # {}

\* C2: when solve returns Some(g), the digits g places on each row- and
\* column-compartment of the input, of length L, are exactly m .. m+L-1 for
\* some m with 1 <= m and m+L-1 <= D.
C2_Straight ==
    Ended("some") =>
        LET compartments == find_compartments(input)
        IN \A k \in 1 .. Len(compartments) :
              \E m \in 1 .. D :
                  /\ m + Len(compartments[k]) - 1 <= D
                  /\ DigitsOn(solved, compartments[k])
                        = m .. (m + Len(compartments[k]) - 1)

\* solve filled an open compartment of two cells with a straight above 1.
C2_Witness ==
    /\ Ended("some")
    /\ LET compartments == find_compartments(input)
       IN \E k \in 1 .. Len(compartments) :
             /\ Len(compartments[k]) = 2
             /\ DigitsOn(input, compartments[k]) = {Empty}
             /\ DigitsOn(solved, compartments[k]) = {2, 3}

\* C3: when solve returns Some(g), no two White cells of g in one row or
\* one column hold the same digit, and no White cell of g holds the
\* non-Empty value of a Black cell of its row or column.
C3_Unique ==
    Ended("some") =>
        /\ \A i, j \in Whites(solved) :
              (i # j /\ (SameRow(i, j) \/ SameCol(i, j)))
                  => solved[i].value # solved[j].value
        /\ \A i \in Whites(solved) : \A j \in Blacks(solved) :
              ((SameRow(i, j) \/ SameCol(i, j)) /\ solved[j].value # Empty)
                  => solved[i].value # solved[j].value

\* solve filled an open White cell that shares a line with a Black clue and
\* with another White cell.
C3_Witness ==
    /\ Ended("some")
    /\ \E i, k \in Whites(input) : \E j \in Blacks(input) :
          /\ i # k /\ SameRow(i, k)
          /\ SameRow(i, j) \/ SameCol(i, j)
          /\ input[i].value = Empty
          /\ input[j].value # Empty

\* C4: when solve returns Some(g), every cell of g has the colour it has in
\* the input, every White cell that held a digit holds the same digit and
\* every Black cell has the input cell's colour and value (Empty included).
C4_CluesKept ==
    Ended("some") =>
        /\ \A i \in Cells : solved[i].color = input[i].color
        /\ \A i \in Cells :
              (input[i].color = "White" /\ input[i].value # Empty)
                  => solved[i].value = input[i].value
        /\ \A i \in Cells : input[i].color = "Black" => solved[i] = input[i]

\* solve returned a grid for an input with a White clue, a Black clue and an
\* open White cell.
C4_Witness ==
    /\ Ended("some")
    /\ \E i \in Whites(input) : input[i].value # Empty
    /\ \E i \in Whites(input) : input[i].value = Empty
    /\ \E i \in Blacks(input) : input[i].value # Empty

\* C5: find_compartments lists the row-compartments, then the
\* column-compartments; every White cell's index occurs in exactly one
\* row-compartment and exactly one column-compartment, so twice in all, and
\* no Black cell's index occurs in any compartment.
C5_Coverage ==
    LET rows == find_compartments_rows(str8ts)
        cols == find_compartments_cols(str8ts)
        all == find_compartments(str8ts)
    IN /\ all = rows \o cols
       /\ \A i \in Cells :
             IF str8ts[i].color = "White"
             THEN /\ Occurrences(rows, i) = 1
                  /\ Occurrences(cols, i) = 1
                  /\ Occurrences(all, i) = 2
             ELSE Occurrences(all, i) = 0

\* A grid with White and Black cells, some White cell last in its row.
C5_Witness ==
    /\ status = "idle"
    /\ Blacks(str8ts) # {}
    /\ \E i \in Whites(str8ts) : ColOf(i) = N - 1 /\ Cardinality(RowRun(str8ts, i)) = 2

\* A compartment along one axis (step 1 along a row, N along a column) is a
\* non-empty run of White cells, in increasing order, that a Black cell or
\* the edge of the grid bounds at either end.
MaximalRun(g, compartment, step) ==
    LET first == compartment[1]
        last == compartment[Len(compartment)]
        Along(i) == IF step = 1 THEN ColOf(i) ELSE RowOf(i)
        Line(i) == IF step = 1 THEN RowOf(i) ELSE ColOf(i)
    IN /\ Len(compartment) >= 1
       /\ \A t \in 1 .. Len(compartment) :
             /\ compartment[t] \in Cells
             /\ g[compartment[t]].color = "White"
             /\ Line(compartment[t]) = Line(first)
             /\ Along(compartment[t]) = Along(first) + t - 1
       /\ Along(first) = 0 \/ g[first - step].color = "Black"
       /\ Along(last) = N - 1 \/ g[last + step].color = "Black"

\* C6: every compartment of find_compartments_rows (find_compartments_cols)
\* is a non-empty contiguous run of White cells of one row (column), in
\* increasing column (row) order, and maximal: the cell before its first
\* member and the cell after its last are Black or outside the grid.
C6_Maximal ==
    LET rows == find_compartments_rows(str8ts)
        cols == find_compartments_cols(str8ts)
    IN /\ \A k \in 1 .. Len(rows) : MaximalRun(str8ts, rows[k], 1)
       /\ \A k \in 1 .. Len(cols) : MaximalRun(str8ts, cols[k], N)

\* A column with a Black cell between two White cells: two compartments.
C6_Witness ==
    /\ status = "idle"
    /\ \E i \in Blacks(str8ts) :
          /\ 0 < RowOf(i) /\ RowOf(i) < N - 1
          /\ str8ts[i - N].color = "White"
          /\ str8ts[i + N].color = "White"

AllOfColour(g, color) == \A i \in Cells : g[i].color = color

\* C7 as stated: for every all-Black grid, whatever its values, solve
\* returns Some(g) with g equal to the input.
C7_AnyValues ==
    (Called /\ AllOfColour(input, "Black")) => (status = "some" /\ solved = input)

\* C7, amended: for every all-Black grid in which no two Black cells of one
\* row or column carry the same digit, solve returns Some(g) with g equal to
\* the input.
C7_AllBlack ==
    (Called /\ AllOfColour(input, "Black") /\ NoBlackDuplicate(input))
        => (status = "some" /\ solved = input)

\* solve returned an all-Black grid that carries clues and Empty cells.
C7_Witness ==
    /\ Ended("some")
    /\ AllOfColour(input, "Black")
    /\ Cardinality({i \in Cells : input[i].value # Empty}) >= 2
    /\ \E i \in Cells : input[i].value = Empty

RowClueTwice(g) ==
    \E i, j \in Cells :
        i # j /\ SameRow(i, j) /\ g[i].value # Empty /\ g[i].value = g[j].value

\* C8: for every all-White grid with the same digit preset on two cells of
\* one row, the model is infeasible and solve, its writes to standard
\* output going through, returns None, not a grid and not an abort.
C8_NoSolution ==
    (Ran /\ AllOfColour(input, "White") /\ RowClueTwice(input))
        => (status = "none" /\ Solutions(BuildModel(input)) = {})

\* solve returned None for such a grid.
C8_Witness ==
    /\ Ended("none")
    /\ AllOfColour(input, "White")
    /\ RowClueTwice(input)

\* A grid that is already solved: a well-formed puzzle (no digit twice among
\* the Black cells of a row or column) whose White cells all hold a digit
\* and obey the rules.
FullySolved(g) == NoBlackDuplicate(g) /\ IsCompletion(g, g)

\* C9: for every fully-solved valid grid solve, its writes to standard
\* output going through, returns Some(g) with g equal to the input; the
\* grid solve returns is fully solved, so a SolveRequested on the grid an
\* earlier SolveRequested produced leaves the editor's grid as it was.
C9_Idempotent ==
    /\ (Ran /\ FullySolved(input))
          => (status = "some" /\ solved = input /\ str8ts = input)
    /\ Ended("some") => FullySolved(solved)

\* The second SolveRequested: solve was called on the grid it had returned,
\* a grid with White and Black cells.
C9_Witness ==
    /\ Ended("some")
    /\ handled.solves = 2
    /\ alive
    /\ input = solved
    /\ Whites(input) # {}
    /\ Blacks(input) # {}

BlackClueTwice(g) ==
    \E i, j \in Blacks(g) :
        /\ i # j
        /\ SameRow(i, j) \/ SameCol(i, j)
        /\ g[i].value # Empty
        /\ g[i].value = g[j].value

\* C10: for every grid with the same digit on two Black cells of one row or
\* of one column, solve, its writes to standard output going through,
\* aborts on the duplicate-values assert and returns neither Some nor None,
\* whatever the rest of the grid.
C10_Abort == (Ran /\ BlackClueTwice(input)) => status = "abort"

\* solve aborted on a grid whose only duplicate is in a column.
C10_Witness ==
    /\ Ended("abort")
    /\ \E i, j \in Blacks(input) :
          i # j /\ SameCol(i, j) /\ input[i].value # Empty
          /\ input[i].value = input[j].value
    /\ ~RowClueTwice(input)

\* C11: a SolveRequested for which solve returns None leaves every cell of
\* the editor's grid as it was; the editor's grid changes only when solve
\* returns Some, and then it becomes the copy of the grid solve returned.
\* solve itself works on the grid it is given (input) and hands back a
\* grid of its own (solved).
C11_GridKept ==
    [][message' = <<"SolveRequested">> =>
          /\ input' = str8ts
          /\ status' = "none" => str8ts' = str8ts
          /\ str8ts' # str8ts => status' = "some"
          /\ (status' = "some" /\ alive') => str8ts' = solved']_vars

\* solve returned None for a grid with clues, Black cells and open White
\* cells, and the editor still shows that grid.
C11_Witness ==
    /\ Ended("none")
    /\ alive
    /\ str8ts = input
    /\ Blacks(str8ts) # {}
    /\ \E i \in Whites(str8ts) : str8ts[i].value = Empty
    /\ \E i \in Cells : str8ts[i].value # Empty

\* The cells of row `row` are White, Black, White, ... in turn.
Alternating(g, row) ==
    \A col \in 0 .. (N - 1) :
        get_cell(g, row, col).color = (IF col % 2 = 0 THEN "White" ELSE "Black")

\* The constraint holds when cell and compartment take digit d: every
\* variable of digit d is 1, every other variable 0.
RECURSIVE ActivityAt(_, _, _)
ActivityAt(cons, d, t) ==
    IF t > Len(cons.vars) THEN 0
    ELSE cons.coeffs[t] * (IF cons.vars[t][3] = d THEN 1 ELSE 0)
         + ActivityAt(cons, d, t + 1)

HoldsAt(cons, d) ==
    LET activity == ActivityAt(cons, d, 1)
    IN cons.lo <= activity /\ activity <= cons.hi

\* Those of the constraints that are over a y variable of compartment c.
ConsOf(cons, c) ==
    {cons[j] : j \in {j \in 1 .. Len(cons) :
                        \E t \in 1 .. Len(cons[j].vars) :
                            /\ cons[j].vars[t][1] = "y"
                            /\ cons[j].vars[t][2] = c}}

\* C12: for a row whose cells are White, Black, White, ... in turn,
\* find_compartments_rows emits exactly one compartment of length 1 for
\* each White cell of the row, (N + 1) \div 2 of them (five on the 9 x 9
\* grid); and for every compartment of length 1 all the y[c,k] have the
\* bounds [0,1] and its constraints 4 and 5 hold for each digit d when the
\* cell holds d and y[c,d] = 1.
C12_Singletons ==
    /\ \A row \in 0 .. (N - 1) :
          Alternating(str8ts, row) =>
              SelectSeq(find_compartments_rows(str8ts),
                        LAMBDA compartment : compartment[1] \div N = row)
                  = [j \in 1 .. ((N + 1) \div 2) |-> <<row * N + 2 * (j - 1)>>]
    /\ LET compartments == find_compartments(str8ts)
           cons45 == Cons4(compartments) \o Cons5(compartments)
       IN \A c \in 1 .. Len(compartments) :
             Len(compartments[c]) = 1 =>
                 LET own == ConsOf(cons45, c - 1)
                 IN /\ \A k \in Digits :
                          YVar(compartments, c - 1, k) = Var(<<"y", c - 1, k>>, 0, 1)
                    /\ Cardinality(own) = 1 + D
                    /\ \A cons \in own :
                          \A t \in 1 .. Len(cons.vars) :
                              cons.vars[t][1] = "x" => cons.vars[t][2] = compartments[c][1]
                    /\ \A d \in Digits : \A cons \in own : HoldsAt(cons, d)

\* solve filled a grid with a row of White and Black cells in turn, and put
\* the largest digit on one of the row's open cells.
C12_Witness ==
    /\ Ended("some")
    /\ \E row \in 0 .. (N - 1) :
          /\ Alternating(input, row)
          /\ \E col \in 0 .. (N - 1) :
                /\ get_cell(input, row, col) = Cell("White", Empty)
                /\ get_cell(solved, row, col).value = D

\* What an iterator made with this flag is to yield, call by call.
Expected(with_empty, n) ==
    LET first == IF with_empty THEN 0 ELSE 1
    IN IF first + n - 1 <= D THEN Some(first + n - 1) ELSE None

\* C13: the calls of next on CellValue::into_iter(true) return Empty, One,
\* ..., the largest digit in that order and then None; on into_iter(false)
\* One, ..., the largest digit and then None; after the first None every
\* call returns None.
C13_IterationOrder ==
    \A j \in 1 .. Len(iters) :
        \A n \in 1 .. Len(iters[j].items) :
            iters[j].items[n] = Expected(iters[j].with_empty, n)

\* One iterator of each kind has been called twice past its last digit.
C13_Witness ==
    /\ \E j \in 1 .. Len(iters) :
          iters[j].with_empty /\ Len(iters[j].items) >= D + 3
    /\ \E j \in 1 .. Len(iters) :
          ~iters[j].with_empty /\ Len(iters[j].items) >= D + 2

\* The text of the last message is not empty and is no digit.
NotADigit(value) == Trim(value) # << >> /\ InputValue(value) = Empty

\* C14: a CellInputChanged(row, col, text) whose text is not empty and is
\* not a digit (such as "0", "12" or "a") leaves the grid as it was, the
\* value of cell (row, col) included.
C14_InvalidInputIgnored ==
    (message[1] = "CellInputChanged" /\ NotADigit(message[4])) => str8ts = input

\* C15: a ClearValues message leaves every cell Empty with the colour it
\* had, the clues of Black cells and of White cells included; a ClearAll
\* message leaves the grid as Str8ts::new() makes it, all White and Empty.
C15_Clear ==
    /\ message = <<"ClearValues">> =>
          \A i \in Cells : str8ts[i] = Cell(input[i].color, Empty)
    /\ message = <<"ClearAll">> => str8ts = Str8tsNew

\* ClearValues came to the grid a SolveRequested had filled: a clue on a
\* Black cell, digits on the White cells and an Empty Black cell.
C15_Witness ==
    /\ message = <<"ClearValues">>
    /\ status = "some"
    /\ input = solved
    /\ \E i \in Blacks(input) : input[i].value # Empty
    /\ \E i \in Whites(input) : input[i].value # Empty
    /\ \E i \in Cells : input[i].value = Empty

====
